---------------------------- MODULE Spec2Model ----------------------------
(***************************************************************************)
(* SelectFromQuadraticModel (dwave/plugins/sklearn/transformers.py).       *)
(*                                                                         *)
(* One estimator instance, its constructor, fit / unfit /                  *)
(* _get_support_mask and the public model builder correlation_cqm.         *)
(*                                                                         *)
(* Representation                                                          *)
(*   - An array is represented by its shape (a tuple of dimensions); the   *)
(*     only facts the code reads from X and y besides the correlations     *)
(*     are ndim, shape[0] and shape[1].                                    *)
(*   - Python's None / a missing attribute is the empty tuple, a present   *)
(*     value v is <<v>>.                                                   *)
(*   - alpha is the fixed-point number a / ADen; a correlation is          *)
(*     c / CDen; an objective bias is b / (CDen * ADen).                   *)
(*   - Arrays indexed by column are functions over 0 .. m-1, as in the     *)
(*     source.                                                             *)
(*   - The Leap sampler and utilities.corrcoef are collaborators: their    *)
(*     answers are inputs of the call that consults them.                  *)
(***************************************************************************)
EXTENDS Integers, Sequences, FiniteSets, TLC

\* ---------------------------------------------------------------- bounds
MaxCols == 3        \* widest feature matrix explored
NRows == 2          \* number of samples (rows) of a 2-dimensional X
ADen == 2           \* alpha resolution: alpha ranges over a / ADen
CDen == 1           \* correlation resolution: entries range over c / CDen
MaxT == 1           \* largest time limit explored
MaxSamples == 2     \* longest sample set the solver returns

\* ------------------------------------------------------- optional values
None == <<>>
Some(v) == <<v>>
IsNone(o) == o = <<>>
Val(o) == o[1]

VARIABLES
    self,    \* None before construction, else Some of the private attributes
    mask,    \* the _mask attribute: None when absent, else Some(boolean array)
    call,    \* the most recent call: operation, arguments, outcome
    cqm,     \* the model built during the most recent call (None if none)
    corrcoef, \* what corrcoef answered during the most recent call (None if not asked)
    leap,    \* what the most recent call did with the Leap sampler
    fitted_since  \* history: has a fit succeeded since construction and since
                  \* the most recent successful unfit?

vars == <<self, mask, call, cqm, corrcoef, leap, fitted_since>>

ACCEPTED_METHODS == {"correlation"}

\* The sampler untouched: not instantiated, nothing sent, nothing returned.
NoLeap == [instantiated |-> FALSE, sent |-> None, sampleset |-> None]

NoArgs == [X |-> None, y |-> None, alpha |-> None, method |-> None,
           num_features |-> None, time_limit |-> None, strict |-> None]

Call(op, args, result, ret) ==
    [op |-> op, args |-> args, result |-> result, ret |-> ret]

\* ------------------------------------------------------------- __init__
InitFails(alpha, method, num_features) ==
    \/ ~(0 <= alpha /\ alpha <= ADen)
    \/ method \notin ACCEPTED_METHODS
    \/ num_features <= 0

__init__(alpha, method, num_features, time_limit) ==
    /\ IsNone(self)
    /\ self' = IF InitFails(alpha, method, num_features)
               THEN None
               ELSE Some([alpha |-> alpha, method |-> method,
                          num_features |-> num_features,
                          time_limit |-> time_limit])
    /\ call' = Call("__init__",
                    [NoArgs EXCEPT !.alpha = Some(alpha), !.method = Some(method),
                                   !.num_features = Some(num_features),
                                   !.time_limit = time_limit],
                    IF InitFails(alpha, method, num_features)
                    THEN "ValueError" ELSE "ok",
                    None)
    /\ mask' = None
    /\ cqm' = None
    /\ corrcoef' = None
    /\ leap' = NoLeap

\* ------------------------------------------------- __sklearn_is_fitted__
__sklearn_is_fitted__ == ~IsNone(mask)

\* ---------------------------------------------------- _get_support_mask
_get_support_mask ==
    /\ ~IsNone(self)
    /\ call' = IF __sklearn_is_fitted__
               THEN Call("get_support_mask", NoArgs, "ok", mask)
               ELSE Call("get_support_mask", NoArgs, "NotFittedError", None)
    /\ cqm' = None
    /\ corrcoef' = None
    /\ leap' = NoLeap
    /\ UNCHANGED <<self, mask>>

\* ----------------------------------------------------------------- unfit
\* Mutant: unfit leaves the attribute in place.
UnfitKeepsMask ==
    /\ ~IsNone(self)
    /\ mask' = mask
    /\ call' = Call("unfit", NoArgs,
                    IF IsNone(mask) THEN "AttributeError" ELSE "ok", None)
    /\ cqm' = None
    /\ corrcoef' = None
    /\ leap' = NoLeap
    /\ UNCHANGED self

unfit ==
    /\ ~IsNone(self)
    /\ mask' = None
    /\ call' = Call("unfit", NoArgs,
                    IF IsNone(mask) THEN "AttributeError" ELSE "ok", None)
    /\ cqm' = None
    /\ corrcoef' = None
    /\ leap' = NoLeap
    /\ UNCHANGED self

\* ------------------------------------------------------ array helpers
Abs(n) == IF n < 0 THEN -n ELSE n

\* np.atleast_2d on a shape: a scalar becomes 1 x 1, a vector of n becomes 1 x n.
atleast_2d(shape) ==
    IF Len(shape) = 0 THEN <<1, 1>>
    ELSE IF Len(shape) = 1 THEN <<1, shape[1]>>
    ELSE shape

\* X_copy[:, -1] = y : a vector of length n is assigned to a column of `rows`
\* entries when n = rows, or n = 1 (broadcast); numpy raises ValueError otherwise.
Broadcasts(yshape, rows) == yshape[1] = rows \/ yshape[1] = 1

\* utilities.corrcoef on the augmented matrix of m features and the label
\* answers with a symmetric (m+1) x (m+1) matrix of unit diagonal, features at
\* 0 .. m-1 and the label at m.  Such a matrix is given by its entries above
\* the diagonal: Corrcoef(m, u) is the matrix, CorrcoefAbove(m, vals) the
\* choices of u with entries v / CDen, v in vals.
Above(m) == {p \in (0 .. m) \X (0 .. m) : p[1] < p[2]}

CorrcoefAbove(m, vals) == [Above(m) -> vals]

Corrcoef(m, u) ==
    [i \in 0 .. m |-> [j \in 0 .. m |->
        IF i = j THEN CDen
        ELSE IF i < j THEN u[<<i, j>>] ELSE u[<<j, i>>]]]

\* ------------------------------------------------------- correlation_cqm
\* Mutant: the constraint is always the relaxed one.
KHotConstraintRelaxed(m, num_features, strict) ==
    [terms |-> [v \in 0 .. m - 1 |-> 1], sense |-> "<=", rhs |-> num_features]

\* The k-hot constraint over all the variables of the model.
KHotConstraint(m, num_features, strict) ==
    [terms |-> [v \in 0 .. m - 1 |-> 1],
     sense |-> IF strict THEN "==" ELSE "<=",
     rhs |-> num_features]

\* np.absolute(correlations, out=correlations)
Absolute(corr, m) ==
    [i \in 0 .. m |-> [j \in 0 .. m |-> Abs(corr[i][j])]]

\* Mutant: the redundancy terms are weighted by 1 - alpha.
FillDiagonalComplement(correlations, m, alpha) ==
    [i \in 0 .. m |-> [j \in 0 .. m |->
        IF i = j THEN -(correlations[i][m] * alpha)
        ELSE correlations[i][j] * (ADen - alpha)]]

\* np.fill_diagonal(correlations, -correlations[:, -1] * alpha).  The result is
\* in units of 1 / (CDen * ADen): an untouched entry c / CDen is c * ADen, the
\* diagonal -(c / CDen) * (alpha / ADen) is -(c * alpha).
FillDiagonal(correlations, m, alpha) ==
    [i \in 0 .. m |-> [j \in 0 .. m |->
        IF i = j THEN -(correlations[i][m] * alpha)
        ELSE correlations[i][j] * ADen]]

\* np.nditer(correlations[:-1, :-1], flags=['multi_index']): the feature block
\* in row-major order, as (i, j, x) terms.
NdIter(correlations, m) ==
    [k \in 1 .. m * m |->
        LET i == (k - 1) \div m
            j == (k - 1) % m
        IN  <<i, j, correlations[i][j]>>]

\* One term of set_objective on binary variables: a term (v, v, x) is linear in
\* v (x*x = x), a term (u, v, x) adds x to the interaction of the pair {u, v}.
AddQuadratic(qm, term) ==
    LET u == term[1]
        v == term[2]
        bias == term[3]
        key == {u, v}
    IN  IF u = v
        THEN [qm EXCEPT !.linear[u] = @ + bias]
        ELSE IF key \in DOMAIN qm.quadratic
        THEN [qm EXCEPT !.quadratic[key] = @ + bias]
        ELSE [qm EXCEPT !.quadratic = @ @@ (key :> bias)]

\* The terms from the k-th to the n-th (the last), added in order to qm.
RECURSIVE SetObjectiveFrom(_, _, _, _)
SetObjectiveFrom(qm, terms, k, n) ==
    IF k > n THEN qm
    ELSE SetObjectiveFrom(AddQuadratic(qm, terms[k]), terms, k + 1, n)

SetObjective(m, terms) ==
    SetObjectiveFrom([linear |-> [v \in 0 .. m - 1 |-> 0],
                      quadratic |-> [p \in {} |-> 0]], terms, 1, m * m)

\* The checks of the method, in the order the code makes them: the exception
\* raised (None if none).  The last one is numpy's, raised by X_copy[:, -1] = y.
CqmRaises(X, y, alpha, num_features) ==
    LET X2 == atleast_2d(X)
    IN  IF Len(X2) # 2 THEN Some("ValueError")
        ELSE IF Len(y) # 1 THEN Some("ValueError")
        ELSE IF ~(0 <= alpha /\ alpha <= ADen) THEN Some("ValueError")
        ELSE IF num_features <= 0 THEN Some("ValueError")
        ELSE IF ~Broadcasts(y, X2[1]) THEN Some("ValueError")
        ELSE None

\* Lines 164-201: the model of m variables, once the checks have passed.
BuildCqm(m, num_features, strict, objective) ==
    [num_variables |-> m,
     constraints |-> <<KHotConstraint(m, num_features, strict)>>,
     objective |-> objective]

\* The objective set at lines 190-199 from what corrcoef computed.
Objective(corr, m, alpha) ==
    SetObjective(m, NdIter(FillDiagonal(Absolute(corr, m), m, alpha), m))

\* The whole method.  X and y are shapes, alpha and num_features are given,
\* corr is what corrcoef computes for (X | y).  Returns the exception raised
\* (None if none) and the model (None if an exception was raised).
correlation_cqm(X, y, alpha, num_features, strict, corr) ==
    IF ~IsNone(CqmRaises(X, y, alpha, num_features))
    THEN [exc |-> CqmRaises(X, y, alpha, num_features), cqm |-> None]
    ELSE [exc |-> None,
          cqm |-> Some(BuildCqm(atleast_2d(X)[2], num_features, strict,
                                Objective(corr, atleast_2d(X)[2], alpha)))]

\* correlation_cqm called directly on the instance; it reads and writes none of
\* the instance's attributes.
CorrelationCqm(X, y, alpha, num_features, strict, corr) ==
    LET built == correlation_cqm(X, y, alpha, num_features, strict, corr)
    IN  /\ ~IsNone(self)
        /\ call' = Call("correlation_cqm",
                        [NoArgs EXCEPT !.X = Some(X), !.y = Some(y),
                                       !.alpha = Some(alpha),
                                       !.num_features = Some(num_features),
                                       !.strict = Some(strict)],
                        IF IsNone(built.exc) THEN "ok" ELSE Val(built.exc),
                        None)
        /\ cqm' = built.cqm
        /\ corrcoef' = IF IsNone(built.exc) THEN Some(corr) ELSE None
        /\ leap' = NoLeap
        /\ UNCHANGED <<self, mask>>

\* ----------------------------------------------------------- sample sets
\* sampleset.filter(lambda d: d.is_feasible)
Feasible(d) == d.is_feasible

\* Mutant: nothing is filtered out.
FilterNothing(sampleset) == sampleset

Filter(sampleset) == SelectSeq(sampleset, Feasible)

\* sampleset.first: the sample of lowest energy, the earliest one among equals.
First(sampleset) ==
    sampleset[CHOOSE i \in 1 .. Len(sampleset) :
                 /\ \A j \in 1 .. Len(sampleset) :
                        sampleset[i].energy <= sampleset[j].energy
                 /\ \A j \in 1 .. i - 1 :
                        sampleset[j].energy > sampleset[i].energy]

\* np.fromiter((lowest[v] for v in cqm.variables), count=..., dtype=bool)
MaskOf(lowest, num_variables) ==
    [v \in 0 .. num_variables - 1 |-> lowest[v] # 0]

\* np.ones(n, dtype=bool)
Ones(n) == [v \in 0 .. n - 1 |-> TRUE]

\* ------------------------------------------------------------------- fit
\* The time limit handed to sampler.sample_cqm.
SampleTimeLimit(time_limit) == Val(self).time_limit

\* An outcome of fit: its result, and the values it leaves in _mask, in the
\* model it built and with the sampler.
Outcome(result, mask_, model, sampling) ==
    [result |-> result, mask |-> mask_, cqm |-> model, leap |-> sampling]

\* Mutant: with no feasible sample, every feature is kept before raising.
SelectKeepsAll(model, sampling, filtered) ==
    IF Len(filtered) = 0
    THEN Outcome("RuntimeError", Some(Ones(model.num_variables)),
                 Some(model), sampling)
    ELSE Outcome("ok",
                 Some(MaskOf(First(filtered).sample, model.num_variables)),
                 Some(model), sampling)

\* Lines 278-288: from the sample set to the mask.
Select(model, sampling, filtered) ==
    IF Len(filtered) = 0
    THEN Outcome("RuntimeError", mask, Some(model), sampling)
    ELSE Outcome("ok",
                 Some(MaskOf(First(filtered).sample, model.num_variables)),
                 Some(model), sampling)

\* Mutant: the mask is dropped when the sampler cannot be instantiated.
SolveDropsMask(model, time_limit, sampler, sampleset) ==
    IF sampler # "ok"
    THEN Outcome("RuntimeError", None, Some(model),
                 [NoLeap EXCEPT !.instantiated = TRUE])
    ELSE Select(model,
                [instantiated |-> TRUE,
                 sent |-> Some([cqm |-> model,
                                time_limit |-> SampleTimeLimit(time_limit)]),
                 sampleset |-> Some(sampleset)],
                Filter(sampleset))

\* Lines 263-288: instantiate the sampler, sample, select.
Solve(model, time_limit, sampler, sampleset) ==
    IF sampler # "ok"
    THEN Outcome("RuntimeError", mask, Some(model),
                 [NoLeap EXCEPT !.instantiated = TRUE])
    ELSE Select(model,
                [instantiated |-> TRUE,
                 sent |-> Some([cqm |-> model,
                                time_limit |-> SampleTimeLimit(time_limit)]),
                 sampleset |-> Some(sampleset)],
                Filter(sampleset))

\* Lines 256-288, given what correlation_cqm returned or raised.
SolveBuilt(built, time_limit, sampler, sampleset) ==
    IF ~IsNone(built.exc)
    THEN Outcome(Val(built.exc), mask, None, NoLeap)
    ELSE Solve(Val(built.cqm), time_limit, sampler, sampleset)

\* Mutant: the early return needs strictly more features than columns.
EnoughFeaturesStrict(num_features, X2) == num_features > X2[2]

\* Line 252: are at least as many features requested as X has columns?
EnoughFeatures(num_features, X2) == num_features >= X2[2]

\* What one fit call does.  X2 is np.atleast_2d(X); alpha and num_features
\* are resolved; corr is the answer of corrcoef, sampler the outcome of
\* LeapHybridCQMSampler() and sampleset the answer of sample_cqm, each used
\* only if the call gets that far.
FitResolved(X2, y, alpha, num_features, time_limit, corr, sampler, sampleset) ==
    IF Len(X2) # 2 THEN Outcome("ValueError", mask, None, NoLeap)
    ELSE IF EnoughFeatures(num_features, X2)
    THEN Outcome("ok", Some(Ones(X2[2])), None, NoLeap)
    ELSE IF Val(self).method # "correlation"
    THEN Outcome("AttributeError", mask, None, NoLeap)
    ELSE SolveBuilt(correlation_cqm(X2, y, alpha, num_features, TRUE, corr),
                    time_limit, sampler, sampleset)

\* Lines 235-247: promote X, resolve the optional arguments.
FitOutcome(X, y, alpha, num_features, time_limit, corr, sampler, sampleset) ==
    FitResolved(atleast_2d(X), y,
                IF IsNone(alpha) THEN Val(self).alpha ELSE Val(alpha),
                IF IsNone(num_features) THEN Val(self).num_features
                ELSE Val(num_features),
                time_limit, corr, sampler, sampleset)

FitApply(X, y, alpha, num_features, time_limit, corr, out) ==
    /\ mask' = out.mask
    /\ call' = Call("fit",
                    [NoArgs EXCEPT !.X = Some(X), !.y = Some(y),
                                   !.alpha = alpha,
                                   !.num_features = num_features,
                                   !.time_limit = time_limit],
                    out.result, None)
    /\ cqm' = out.cqm
    /\ corrcoef' = IF IsNone(out.cqm) THEN None ELSE Some(corr)
    /\ leap' = out.leap
    /\ UNCHANGED self

fit(X, y, alpha, num_features, time_limit, corr, sampler, sampleset) ==
    /\ ~IsNone(self)
    /\ FitApply(X, y, alpha, num_features, time_limit, corr,
                FitOutcome(X, y, alpha, num_features, time_limit,
                           corr, sampler, sampleset))

\* ------------------------------------------------------- input domains
Optional(S) == {None} \cup {Some(v) : v \in S}

Methods == {"correlation", "mutual information"}

SamplerOutcomes == {"ok", "ConfigFileError", "SolverAuthenticationError"}

\* Shapes of X: a scalar, vectors, matrices of NRows rows, a 3-dimensional array.
XShapes ==
    {<<>>} \cup {<<c>> : c \in 1 .. MaxCols}
           \cup {<<NRows, c>> : c \in 0 .. MaxCols}
           \cup {<<NRows, 1, 1>>}

\* Shapes of y: a scalar, vectors, a 2-dimensional array.
YShapes == {<<>>, <<1>>, <<NRows>>, <<NRows + 1>>, <<NRows, 1>>}

\* The assignment that selects the first k (or the last k) of m variables.
FirstK(m, k) == [v \in 0 .. m - 1 |-> IF v < k THEN 1 ELSE 0]
LastK(m, k) == [v \in 0 .. m - 1 |-> IF v >= m - k THEN 1 ELSE 0]

\* Assignments of m binary variables: a leading or a trailing block of every
\* size from none to all.
Assignments(m) ==
    {FirstK(m, k) : k \in 0 .. m} \cup {LastK(m, k) : k \in 0 .. m}

\* A sample over m binary variables; two energy levels make any two samples
\* of a set equal, lower or higher in energy.
Samples(m) ==
    [sample : Assignments(m), energy : {0, 1}, is_feasible : BOOLEAN]

\* Every sample set of at most MaxSamples samples.
SampleSets(m) == UNION {[1 .. n -> Samples(m)] : n \in 0 .. MaxSamples}

\* A few sample sets for a model of m variables with target k: none, and one
\* sample, flagged feasible or not.
FewSampleSets(m, k) ==
    {<<>>} \cup {<<[sample |-> a, energy |-> 0, is_feasible |-> f]>> :
                    a \in {FirstK(m, k), LastK(m, k)}, f \in BOOLEAN}

\* Does a fit call with these arguments get as far as the sampler?
Cols(X) == atleast_2d(X)[2]
ResolvedAlpha(alpha) == IF IsNone(alpha) THEN Val(self).alpha ELSE Val(alpha)
ResolvedNumFeatures(num_features) ==
    IF IsNone(num_features) THEN Val(self).num_features ELSE Val(num_features)
ReachesSolver(X, y, alpha, num_features) ==
    /\ ~IsNone(self)
    /\ Len(atleast_2d(X)) = 2
    /\ ResolvedNumFeatures(num_features) < Cols(X)
    /\ IsNone(CqmRaises(X, y, ResolvedAlpha(alpha),
                        ResolvedNumFeatures(num_features)))

\* The collaborators' answers to one fit call: consulted only when the call
\* reaches them, so a single (unused) answer is enumerated otherwise.
FitWith(X, y, alpha, num_features, time_limit, vals, samplers, samplesets) ==
    IF ReachesSolver(X, y, alpha, num_features)
    THEN \E u \in CorrcoefAbove(Cols(X), vals), sampler \in samplers :
          \E corr \in {Corrcoef(Cols(X), u)} :
            IF sampler = "ok"
            THEN \E sampleset \in samplesets :
                    fit(X, y, alpha, num_features, time_limit,
                        corr, sampler, sampleset)
            ELSE fit(X, y, alpha, num_features, time_limit, corr, sampler, <<>>)
    ELSE fit(X, y, alpha, num_features, time_limit, <<>>, "ok", <<>>)

Init ==
    /\ self = None
    /\ mask = None
    /\ call = Call("none", NoArgs, "ok", None)
    /\ cqm = None
    /\ corrcoef = None
    /\ leap = NoLeap
    /\ fitted_since = FALSE

\* The history variable follows the outcomes of the calls, as a caller sees
\* them, and nothing else.
History ==
    fitted_since' =
        IF call'.op = "__init__" THEN FALSE
        ELSE IF call'.op = "fit" /\ call'.result = "ok" THEN TRUE
        ELSE IF call'.op = "unfit" /\ call'.result = "ok" THEN FALSE
        ELSE fitted_since

\* ------------------------------------------------------------- lifecycle
\* Spec: any sequence of calls on one instance, over a few arguments that
\* take fit down each of its paths.
ConstructSome ==
    \E alpha \in {-1, 1}, method \in Methods,
       num_features \in {0, 1}, time_limit \in {None, Some(MaxT)} :
        __init__(alpha, method, num_features, time_limit)

FitSome ==
    \E X \in {<<NRows, c>> : c \in 1 .. MaxCols} \cup {<<NRows, 1, 1>>},
       alpha \in {None, Some(ADen + 1)},
       num_features \in {None, Some(2)} :
        FitWith(X, <<NRows>>, alpha, num_features, None,
                {0}, SamplerOutcomes,
                FewSampleSets(Cols(X), ResolvedNumFeatures(num_features)))

Next ==
    \/ ConstructSome /\ History
    \/ FitSome /\ History
    \/ unfit /\ History
    \/ _get_support_mask /\ History

Spec == Init /\ [][Next]_vars

\* --------------------------------------------------------- one fit call
\* SpecFit: every construction, then one fit call on the fresh instance over
\* every shape of X and y and every choice of the optional arguments.
ConstructAny ==
    \E alpha \in {-1, 1, ADen + 1}, method \in Methods,
       num_features \in {0, 1, MaxCols}, time_limit \in Optional(1 .. MaxT) :
        __init__(alpha, method, num_features, time_limit)

FitAny ==
    \E X \in XShapes, y \in YShapes,
       alpha \in Optional({-1, 0, ADen, ADen + 1}),
       num_features \in Optional(-1 .. MaxCols + 1),
       time_limit \in Optional(1 .. MaxT) :
        FitWith(X, y, alpha, num_features, time_limit,
                {-CDen}, SamplerOutcomes,
                FewSampleSets(Cols(X), ResolvedNumFeatures(num_features)))

Fresh == call.op = "__init__"

NextFit ==
    \/ ConstructAny /\ History
    \/ Fresh /\ FitAny /\ History

SpecFit == Init /\ [][NextFit]_vars

\* ------------------------------------------------------ the solver path
\* SpecSolver: one fit call asking for k of m features, over every sample set
\* the sampler can answer with (k = m returns before the sampler).
ConstructDefault == __init__(1, "correlation", 1, None)

FitSolved ==
    \E m \in 2 .. MaxCols : \E k \in 1 .. m :
        FitWith(<<NRows, m>>, <<NRows>>, None, Some(k), None,
                {0}, {"ok"}, SampleSets(m))

NextSolver ==
    \/ ConstructDefault /\ History
    \/ Fresh /\ FitSolved /\ History

SpecSolver == Init /\ [][NextSolver]_vars

\* --------------------------------------------------- the model builder
\* SpecCqm: one call of correlation_cqm, over every correlation matrix whose
\* entries are a full negative correlation or a weaker non-negative one.
CorrelationCqmAny ==
    \E X \in {<<NRows, c>> : c \in 1 .. MaxCols} \cup {<<NRows, 1, 1>>},
       y \in {<<NRows>>, <<NRows, 1>>},
       alpha \in {-1, 0, 1, ADen, ADen + 1},
       num_features \in {0, 1},
       strict \in BOOLEAN :
        IF IsNone(CqmRaises(X, y, alpha, num_features))
        THEN \E u \in CorrcoefAbove(Cols(X), {-CDen, CDen - 1}) :
              \E corr \in {Corrcoef(Cols(X), u)} :
                CorrelationCqm(X, y, alpha, num_features, strict, corr)
        ELSE CorrelationCqm(X, y, alpha, num_features, strict, <<>>)

NextCqm ==
    \/ ConstructDefault /\ History
    \/ Fresh /\ CorrelationCqmAny /\ History

SpecCqm == Init /\ [][NextCqm]_vars

\* =================================================================
\* Properties
\* =================================================================
\* The arguments of the most recent call, and the values fit resolves the
\* optional ones to.
ArgX == Val(call.args.X)
ArgY == Val(call.args.y)
GivenOrDefault(given, default) == IF IsNone(given) THEN default ELSE Val(given)
UsedAlpha == GivenOrDefault(call.args.alpha, Val(self).alpha)
UsedNumFeatures == GivenOrDefault(call.args.num_features, Val(self).num_features)
UsedTimeLimit ==
    IF IsNone(call.args.time_limit) THEN Val(self).time_limit
    ELSE call.args.time_limit
AllTrue(n) == [v \in 0 .. n - 1 |-> TRUE]
Selected(mask_) == {v \in DOMAIN mask_ : mask_[v]}

\* C1: a fit call on a 2-dimensional X with a valid alpha and a resolved
\* num_features of at least the number of columns succeeds, stores the
\* all-true mask of that many entries and leaves the instance fitted, without
\* building a model and without touching the sampler.
C1_ShortCircuit ==
    ( /\ call.op = "fit"
      /\ Len(ArgX) = 2
      /\ UsedAlpha \in 0 .. ADen
      /\ UsedNumFeatures >= ArgX[2] )
    => /\ call.result = "ok"
       /\ mask = Some(AllTrue(ArgX[2]))
       /\ __sklearn_is_fitted__
       /\ IsNone(cqm)
       /\ leap = NoLeap

C1_Witness ==
    /\ call.op = "fit"
    /\ Len(ArgX) = 2
    /\ ArgX[2] >= 2
    /\ ~IsNone(call.args.alpha)
    /\ UsedAlpha \in 0 .. ADen
    /\ UsedNumFeatures = ArgX[2]
    /\ mask = Some(AllTrue(ArgX[2]))

\* C2: a construction with alpha outside [0,1], num_features <= 0 or an
\* unaccepted method raises ValueError and yields no instance; a fit call on
\* a 2-dimensional X given an alpha outside [0,1] or a num_features <= 0
\* raises ValueError and sets no mask.
C2_InvalidRejected ==
    /\ ( /\ call.op = "__init__"
         /\ \/ Val(call.args.alpha) \notin 0 .. ADen
            \/ Val(call.args.num_features) <= 0
            \/ Val(call.args.method) \notin ACCEPTED_METHODS )
       => (call.result = "ValueError" /\ IsNone(self))
    /\ ( /\ call.op = "fit"
         /\ Len(ArgX) = 2
         /\ \/ (~IsNone(call.args.alpha) /\ Val(call.args.alpha) \notin 0 .. ADen)
            \/ (~IsNone(call.args.num_features)
                    /\ Val(call.args.num_features) <= 0) )
       => (call.result = "ValueError" /\ IsNone(mask))

\* C3 (as stated): after any fit call that fails no mask is stored, whatever
\* the instance held before the call.
C3_FailedFitUnfitted ==
    (call.op = "fit" /\ call.result # "ok") => IsNone(mask)

\* C3 (amended): a fit call that fails on an instance holding no mask leaves
\* it holding none, and get_support_mask on an instance holding no mask
\* fails with NotFittedError.
C3_FailedFitStaysUnfitted ==
    [][ /\ (IsNone(mask) /\ call'.op = "fit" /\ call'.result # "ok")
            => IsNone(mask')
        /\ (IsNone(mask) /\ call'.op = "get_support_mask")
            => call'.result = "NotFittedError" ]_vars

C3_Witness ==
    /\ call.op = "fit"
    /\ call.result = "RuntimeError"
    /\ ~IsNone(leap.sampleset)
    /\ IsNone(mask)

\* C4: a fit call that raises leaves the stored mask as it was; a stored mask
\* is what get_support_mask returns; and the mask gets a new value only from
\* a fit call that succeeds.
C4_FailedFitKeepsMask ==
    [][ /\ (call'.op = "fit" /\ call'.result # "ok") => mask' = mask
        /\ (call'.op = "get_support_mask" /\ ~IsNone(mask))
            => (call'.ret = mask /\ mask' = mask)
        /\ (mask' # mask /\ ~IsNone(mask'))
            => (call'.op = "fit" /\ call'.result = "ok") ]_vars

C4_Witness ==
    /\ call.op = "fit"
    /\ call.result = "RuntimeError"
    /\ leap.instantiated
    /\ ~IsNone(mask)

\* C5: after a successful fit on a 2-dimensional X the mask has one entry per
\* column; and when the sampler was used and its feasibility flags are those
\* of the constraints of the model it was sent, the mask selects exactly the
\* resolved num_features columns.
RECURSIVE Weighted(_, _, _)
Weighted(terms, sample, n) ==
    IF n = 0 THEN 0
    ELSE terms[n - 1] * sample[n - 1] + Weighted(terms, sample, n - 1)

Satisfies(sample, constraint, n) ==
    IF constraint.sense = "=="
    THEN Weighted(constraint.terms, sample, n) = constraint.rhs
    ELSE Weighted(constraint.terms, sample, n) <= constraint.rhs

Truthful ==
    LET model == Val(leap.sent).cqm
        sampleset == Val(leap.sampleset)
    IN  \A i \in 1 .. Len(sampleset) :
            sampleset[i].is_feasible <=>
                \A c \in 1 .. Len(model.constraints) :
                    Satisfies(sampleset[i].sample, model.constraints[c],
                              model.num_variables)

C5_MaskSize ==
    (call.op = "fit" /\ call.result = "ok" /\ Len(ArgX) = 2)
    => /\ DOMAIN Val(mask) = 0 .. ArgX[2] - 1
       /\ (~IsNone(leap.sent) /\ Truthful)
            => Cardinality(Selected(Val(mask))) = UsedNumFeatures

C5_Witness ==
    /\ call.op = "fit"
    /\ call.result = "ok"
    /\ ~IsNone(leap.sent)
    /\ Truthful
    /\ Len(Val(leap.sampleset)) = MaxSamples
    /\ UsedNumFeatures = 2
    /\ Cardinality(Selected(Val(mask))) = 2

\* C6: when the sampler answered: with no sample flagged feasible, fit raises
\* RuntimeError (and the fresh instance holds no mask); otherwise it succeeds
\* and the mask is, column by column, the assignment of a sample flagged
\* feasible whose energy is the lowest among those flagged feasible.
C6_LowestFeasible ==
    (call.op = "fit" /\ ~IsNone(leap.sampleset))
    => LET sampleset == Val(leap.sampleset)
           feasible == {i \in 1 .. Len(sampleset) : sampleset[i].is_feasible}
       IN  IF feasible = {}
           THEN call.result = "RuntimeError" /\ IsNone(mask)
           ELSE /\ call.result = "ok"
                /\ \E i \in feasible :
                     /\ \A j \in feasible :
                            sampleset[i].energy <= sampleset[j].energy
                     /\ Val(mask) = [v \in 0 .. ArgX[2] - 1 |->
                                        sampleset[i].sample[v] = 1]

C6_Witness ==
    /\ call.op = "fit"
    /\ call.result = "ok"
    /\ ~IsNone(leap.sampleset)
    /\ \E i, j \in 1 .. Len(Val(leap.sampleset)) :
         LET sampleset == Val(leap.sampleset)
         IN  /\ ~sampleset[i].is_feasible
             /\ sampleset[j].is_feasible
             /\ sampleset[i].energy < sampleset[j].energy
             /\ sampleset[i].sample # sampleset[j].sample
             /\ Val(mask) = [v \in 0 .. ArgX[2] - 1 |-> sampleset[j].sample[v] = 1]

\* C7: when fit samples, the time limit handed to the sampler is the
\* time_limit argument if given and the constructor's otherwise, and the model
\* sent is the one correlation_cqm builds for the alpha and num_features
\* arguments if given and the constructor's otherwise.
C7_ResolvedArguments ==
    (call.op = "fit" /\ ~IsNone(leap.sent))
    => /\ Val(leap.sent).time_limit = UsedTimeLimit
       /\ Some(Val(leap.sent).cqm) =
             correlation_cqm(ArgX, ArgY, UsedAlpha, UsedNumFeatures, TRUE,
                             Val(corrcoef)).cqm

\* C8: get_support_mask returns a mask exactly when a fit has succeeded since
\* construction and since the most recent successful unfit, and raises
\* NotFittedError otherwise; a second get_support_mask in a row returns the
\* same mask, and get_support_mask changes nothing of the instance.
C8_SupportMask ==
    /\ [](call.op = "get_support_mask"
            => IF fitted_since
               THEN call.result = "ok" /\ ~IsNone(call.ret)
               ELSE call.result = "NotFittedError" /\ IsNone(call.ret))
    /\ [][ call'.op = "get_support_mask"
            => /\ UNCHANGED <<self, mask>>
               /\ (call.op = "get_support_mask" /\ call.result = "ok")
                    => (call'.result = "ok" /\ call'.ret = call.ret) ]_vars

C8_Witness ==
    /\ call.op = "get_support_mask"
    /\ call.result = "ok"
    /\ fitted_since
    /\ Cardinality(Selected(Val(call.ret))) = 1
    /\ Cardinality(DOMAIN Val(call.ret)) = 2

C10_BadShapesRejected ==
    ( /\ call.op \in {"fit", "correlation_cqm"}
      /\ (Len(ArgX) # 2 \/ Len(ArgY) # 1) )
    => /\ call.result = "ValueError"
       /\ IsNone(cqm)
       /\ leap = NoLeap
       /\ IsNone(mask)

=============================================================================
